---- MODULE Spec2Model ----
(***************************************************************************)
(* VulnCodeCollector: the fetch / merge / persist pipeline of nvd_api.py   *)
(* and the batch loop of main.py (App.fetch).                              *)
(*                                                                         *)
(* Strings are sequences of one-character strings, so that the regular     *)
(* expressions, str.upper and str.strip are computed character by          *)
(* character.  Python dicts are TLA+ functions (records); a missing key    *)
(* is a key outside DOMAIN.  A raised, uncaught exception is the value     *)
(* Raised, which propagates to the caller.                                 *)
(***************************************************************************)
EXTENDS Integers, Sequences, FiniteSets, TLC

VARIABLES
    lines,          \* App.fetch: cve_numbers = f.readlines()
    idx,            \* App.fetch: position of the for loop in cve_numbers
    pbar,           \* App.fetch: progress reported by pbar.update(1)
    delays,         \* App.fetch: number of sleep(3) calls performed
    handed,         \* arguments fetch_data_with_CVE_number was called with
    pc,             \* control position
    raw,            \* fetch_data_with_CVE_number: the argument cve_number
    cve_number,     \* fetch_data_with_CVE_number: cve_number after .upper()
    nvd_data,       \* fetch_data_with_CVE_number: local nvd_data
    open_cve_data,  \* fetch_data_with_CVE_number: local open_cve_data
    ret,            \* outcome of the last fetch_data_with_CVE_number call
    requests,       \* HTTP requests issued during the current call
    nvd_response,   \* what the NVD registry answered in the current call
    oc_response,    \* what the OpenCVE registry answered in the current call
    log,            \* rate-limit log line emitted during the current call
    env,            \* credential store read by load_env_var
    dirs,           \* ./data/<id> directories that exist
    files,          \* ./data/<id>/<id>.json : id -> document
    dirs0,          \* dirs when the current call started
    files0          \* files when the current call started

vars == <<lines, idx, pbar, delays, handed, pc, raw, cve_number, nvd_data,
          open_cve_data, ret, requests, nvd_response, oc_response, log, env,
          dirs, files, dirs0, files0>>

-----------------------------------------------------------------------------
(* Bounds of the model *)

MaxBatch == 2       \* lines in a batch file
MaxRefs == 2        \* reference entries in an NVD payload

(* Program constants *)

YearDigits == 4     \* \d{4}
MinSeqDigits == 4   \* \d{4,}
ShaLen == 40        \* [0-9a-f]{40}
RateDivisor == 10   \* limit//10

-----------------------------------------------------------------------------
(* Characters and strings *)

NL == "\n"
Digits == {"0", "1", "2", "3", "4", "5", "6", "7", "8", "9"}
LowerLetters == {"a", "b", "c", "d", "e", "f", "v", "x"}
UpperLetters == {"A", "B", "C", "D", "E", "F", "V", "X"}
Whitespace == {" ", NL}

IsDigit(c) == c \in Digits

\* \w of a str pattern, on the alphabet used here
WordChars == Digits \cup LowerLetters \cup UpperLetters \cup {"_"}
    \cup {"g", "i", "t", "h", "u", "o", "m", "p", "s", "r"}

UpperChar(c) ==
    CASE c = "a" -> "A" [] c = "b" -> "B" [] c = "c" -> "C" [] c = "d" -> "D"
      [] c = "e" -> "E"
      [] c = "f" -> "F" [] c = "v" -> "V" [] c = "x" -> "X"
      [] OTHER -> c

\* str.upper()
Upper(s) == [i \in 1..Len(s) |-> UpperChar(s[i])]

\* str.strip(): leading and trailing whitespace removed
Strip(s) ==
    LET keep == {i \in 1..Len(s) : s[i] \notin Whitespace}
        lo == CHOOSE i \in keep : \A j \in keep : i <= j
        hi == CHOOSE i \in keep : \A j \in keep : j <= i
    IN  IF keep = {} THEN <<>> ELSE SubSeq(s, lo, hi)

\* Python's $ (no MULTILINE): at the end of the string, or just before a
\* newline that is the last character.  i is the next unread position.
EndAnchor(s, i) ==
    \/ i = Len(s) + 1
    \/ i = Len(s) /\ s[Len(s)] = NL

\* a literal of the pattern at position i: the next position, or 0
MatchLit(s, i, lit) ==
    IF i >= 1 /\ i + Len(lit) - 1 <= Len(s)
       /\ \A k \in 1..Len(lit) : s[i + k - 1] = lit[k]
    THEN i + Len(lit) ELSE 0

\* the longest run of characters satisfying a class, from position i: the
\* position after the run (i itself when the run is empty)
RunEnd(s, i, class) ==
    IF i < 1 THEN 0
    ELSE LET stops == {j \in i..Len(s) : s[j] \notin class}
         IN  IF stops = {} THEN Len(s) + 1
             ELSE CHOOSE j \in stops : \A k \in stops : j <= k

LitCVE == <<"C", "V", "E", "-">>

\* re.match(r'^CVE-\d{4}-\d{4,}$', cve_id)
validate_cve(cve_id) ==
    LET a == MatchLit(cve_id, 1, LitCVE)
        b == RunEnd(cve_id, a, Digits)
    IN  /\ a # 0
        /\ b - a >= YearDigits
        \* \d{4} takes exactly four digits, and "-" must follow them
        /\ LET c == MatchLit(cve_id, a + YearDigits, <<"-">>)
               d == RunEnd(cve_id, c, Digits)
           IN  /\ c # 0
               /\ d - c >= MinSeqDigits
               \* \d{4,} is greedy; giving digits back leaves a digit
               \* next, where $ cannot match, so only the full run counts
               /\ EndAnchor(cve_id, d)

LitGitHub == <<"h", "t", "t", "p", "s", ":", "/", "/", "g", "i", "t", "h",
               "u", "b", ".", "c", "o", "m", "/">>
LitCommit == <<"c", "o", "m", "m", "i", "t", "/">>
\* [\w\-]
NameChars == WordChars \cup {"-"}
\* [0-9a-f]
HexChars == Digits \cup {"a", "b", "c", "d", "e", "f"}

\* re.match(r'^https://github\.com/[\w\-]+/[\w\-]+/commit/[0-9a-f]{40}$', url)
GithubCommitMatch(url) ==
    LET a == MatchLit(url, 1, LitGitHub)
        b == RunEnd(url, a, NameChars)
        c == MatchLit(url, b, <<"/">>)
        d == RunEnd(url, c, NameChars)
        e == MatchLit(url, d, <<"/">>)
        f == MatchLit(url, e, LitCommit)
        g == RunEnd(url, f, HexChars)
    IN  /\ a # 0 /\ b > a
        /\ c # 0 /\ d > c
        /\ e # 0 /\ f # 0
        /\ g - f >= ShaLen
        /\ EndAnchor(url, f + ShaLen)

-----------------------------------------------------------------------------
(* Python values *)

None == [type |-> "None"]
Unset == [type |-> "Unset"]        \* a local not assigned yet
Raised == [type |-> "Raised"]      \* an exception left the function

Has(d, k) == k \in DOMAIN d

\* d[k].append(v) on a defaultdict(list)
DictAppend(d, k, v) ==
    IF Has(d, k) THEN [d EXCEPT ![k] = Append(@, v)] ELSE d @@ (k :> <<v>>)

EmptyDict == [k \in {} |-> <<>>]

-----------------------------------------------------------------------------
(* Reference urls.  A url is held by name; UrlText is its text. *)

Sha(n) == [i \in 1..n |-> IF i % 2 = 1 THEN "2" ELSE "f"]
RepoPath == <<"f", "o", "o", "/", "b", "-", "r", "/">>
AdvisoryText == <<"h", "t", "t", "p", "s", ":", "/", "/", "x", ".", "o", "r",
                  "g", "/", "a">>

UrlText(url) ==
    CASE url = "commit" -> LitGitHub \o RepoPath \o LitCommit \o Sha(ShaLen)
      [] url = "commit2" -> LitGitHub \o RepoPath \o LitCommit
                            \o [Sha(ShaLen) EXCEPT ![1] = "0"]
      [] url = "shortsha" -> LitGitHub \o RepoPath \o LitCommit
                             \o Sha(ShaLen - 1)
      [] url = "longsha" -> LitGitHub \o RepoPath \o LitCommit
                            \o Sha(ShaLen + 1)
      [] url = "uppersha" -> LitGitHub \o RepoPath \o LitCommit
                             \o [Sha(ShaLen) EXCEPT ![2] = "F"]
      [] url = "tree" -> LitGitHub \o RepoPath \o <<"t", "r", "e", "e", "/">>
                         \o Sha(ShaLen)
      [] url = "advisory" -> AdvisoryText

\* validate_a_url_belongs_to_github
validate_a_url_belongs_to_github(url) == GithubCommitMatch(UrlText(url))

-----------------------------------------------------------------------------
(* Source Client A: fetch_data_with_CVE_number_in_NVD *)

\* description: the first English entry's value, else the sentinel
FirstEnglish(descs) ==
    LET en == {i \in 1..Len(descs) : descs[i].lang = "en"}
    IN  IF en = {} THEN "No desc yet"
        ELSE descs[CHOOSE i \in en : \A j \in en : i <= j].value

RECURSIVE AppendUnderTags(_, _, _)
\* for tag in tags: references[tag].append(ref_url["url"])
AppendUnderTags(refs, tags, url) ==
    IF tags = <<>> THEN refs
    ELSE AppendUnderTags(DictAppend(refs, Head(tags), url), Tail(tags), url)

\* the body of the loop over vuln_info["references"], for one entry
AddReference(refs, ref_url) ==
    LET tags == IF Has(ref_url, "tags") THEN ref_url.tags ELSE <<>>
        tagged == AppendUnderTags(refs, tags, ref_url.url)
    IN  IF validate_a_url_belongs_to_github(ref_url.url)
        THEN DictAppend(tagged, "GitHub", ref_url.url)
        ELSE tagged

RECURSIVE DumpReferences(_, _)
DumpReferences(refs, entries) ==
    IF entries = <<>> THEN refs
    ELSE DumpReferences(AddReference(refs, Head(entries)), Tail(entries))

\* what the function returns for a response: None, Raised or the info dict
NVDResult(response) ==
    IF response.kind \in {"transport_error", "http_error"} THEN None
    ELSE IF response.kind = "not_json" THEN Raised       \* response.json()
    ELSE LET body == response.body IN
    IF ~Has(body, "vulnerabilities") THEN Raised         \* KeyError
    ELSE IF body.vulnerabilities = <<>> THEN None
    ELSE IF ~Has(body, "resultsPerPage") THEN Raised     \* KeyError
    ELSE IF body.resultsPerPage = 0 THEN None
    ELSE IF ~Has(body.vulnerabilities[1], "cve") THEN Raised
    ELSE LET vuln_info == body.vulnerabilities[1].cve IN
    IF \E k \in {"id", "published", "descriptions", "vulnStatus"} :
           ~Has(vuln_info, k)
    THEN Raised                                          \* KeyError
    ELSE IF Has(vuln_info, "references")
            /\ \E i \in 1..Len(vuln_info.references) :
                   ~Has(vuln_info.references[i], "url")
    THEN Raised                                          \* KeyError
    ELSE [cve_number |-> vuln_info.id,
          publish_date |-> vuln_info.published,
          description |-> FirstEnglish(vuln_info.descriptions),
          status |-> vuln_info.vulnStatus,
          references |->
              IF Has(vuln_info, "references")
              THEN DumpReferences(EmptyDict, vuln_info.references)
              ELSE EmptyDict]

-----------------------------------------------------------------------------
(* Source Client B: fetch_data_with_CVE_number_in_OpenCVE *)

RateHeaders == {"X-RateLimit-Remaining", "X-RateLimit-Limit", "Retry-After"}

\* the rate-limit block: the log line it emits, "skipped" when a header is
\* absent, "TypeError" when an operator is applied to a str
RateLimitCheck(headers) ==
    IF ~(RateHeaders \subseteq DOMAIN headers) THEN "skipped"
    ELSE LET remaining == headers["X-RateLimit-Remaining"]
             limit == headers["X-RateLimit-Limit"]
         IN  IF limit.type # "int" THEN "TypeError"          \* str // int
             ELSE IF remaining.type # "int" THEN "TypeError" \* str <= int
             ELSE IF remaining.val <= limit.val \div RateDivisor
                  THEN "warning" ELSE "info"

OpenCVEFields == {"cve_id", "vendors", "title", "description", "weaknesses"}

\* what the function returns once the response is in
OpenCVEResult(response) ==
    IF response.kind \in {"transport_error", "http_error"} THEN None
    ELSE IF response.kind = "not_json" THEN Raised       \* response.json()
    ELSE LET response_text == response.body IN
    IF \E k \in OpenCVEFields : ~Has(response_text, k) THEN Raised
    ELSE IF RateLimitCheck(response.headers) = "TypeError" THEN Raised
    ELSE [id |-> response_text.cve_id,
          vendor |-> response_text.vendors,
          title |-> response_text.title,
          descrtiption |-> response_text.description,
          cwe |-> response_text.weaknesses]

\* the log line of the rate-limit block, when it is reached
OpenCVELog(response) ==
    IF OpenCVEResult(response) \in {None, Raised} THEN "none"
    ELSE LET l == RateLimitCheck(response.headers)
         IN  IF l = "skipped" THEN "none" ELSE l

-----------------------------------------------------------------------------
(* Merge & Persist: fetch_data_with_CVE_number *)

\* a merge that files the vendor list under "weaknesses" as well
MergedRecord_VendorAsWeaknesses(nvd, oc) ==
    [k \in DOMAIN nvd \cup {"vendor", "title", "weaknesses"} |->
        CASE k = "vendor" -> oc.vendor
          [] k = "title" -> oc.title
          [] k = "weaknesses" -> oc.vendor
          [] OTHER -> nvd[k]]

\* result = defaultdict(None, nvd_data); result["vendor"] = ...; ...
MergedRecord(nvd, oc) ==
    [k \in DOMAIN nvd \cup {"vendor", "title", "weaknesses"} |->
        CASE k = "vendor" -> oc.vendor
          [] k = "title" -> oc.title
          [] k = "weaknesses" -> oc.cwe
          [] OTHER -> nvd[k]]

\* a save that keeps a document that is already there
WriteFile_KeepExisting(fs, path, doc) ==
    [p \in DOMAIN fs \cup {path} |-> IF p \in DOMAIN fs THEN fs[p] ELSE doc]

\* open(path, "w"); json.dump(result, f)
WriteFile(fs, path, doc) ==
    [p \in DOMAIN fs \cup {path} |-> IF p = path THEN doc ELSE fs[p]]

\* githubURLs after the loop over result["references"]["GitHub"]
GithubURLs(result) ==
    IF Has(result.references, "GitHub") THEN result.references["GitHub"]
    ELSE <<>>

\* the value the function returns after the record is saved
StoredStatus(githubURLs) ==
    IF githubURLs = <<>> THEN "True"
    ELSE "None"     \* the loop over githubURLs ends the body: no return

-----------------------------------------------------------------------------
(* Inputs: identifier strings *)

Id2021 == <<"C", "V", "E", "-", "2", "0", "2", "1", "-", "1", "2", "3", "4">>
Id2022 == <<"C", "V", "E", "-", "2", "0", "2", "2", "-", "1", "2", "3", "4",
            "5">>
IdLower == <<"c", "v", "e", "-", "2", "0", "2", "1", "-", "1", "2", "3", "4">>
IdShort == <<"C", "V", "E", "-", "2", "1", "-", "1", "2", "3", "4">>

\* the lines of a batch file, as readlines() returns them
BatchLines == {Id2021 \o <<NL>>, IdLower \o <<" ", NL>>, Id2022 \o <<NL>>,
               IdShort \o <<NL>>, <<NL>>}

Batches == UNION {[1..n -> BatchLines] : n \in 0..MaxBatch}

\* strings a caller may hand to fetch_data_with_CVE_number
Prefixes == {<<"C", "V", "E", "-">>, <<"c", "v", "e", "-">>,
             <<"C", "V", "E", "_">>, <<"X", "C", "V", "E", "-">>,
             <<" ", "C", "V", "E", "-">>, <<"C", "V", "-">>}
Years == {<<"2", "0", "2">>, <<"2", "0", "2", "1">>,
          <<"2", "0", "2", "1", "1">>}
Separators == {<<"-">>, <<>>, <<"-", "-">>}
Numbers == {<<"1", "2", "3">>, <<"1", "2", "3", "4">>,
            <<"1", "2", "3", "4", "5">>, <<"1", "2", "x", "4">>}
Suffixes == {<<>>, <<NL>>, <<"x">>, <<" ">>, <<NL, NL>>, <<NL, "x">>}

RawIds == {p \o y \o s \o n \o t :
              p \in Prefixes, y \in Years, s \in Separators, n \in Numbers,
              t \in Suffixes} \cup {<<>>}

-----------------------------------------------------------------------------
(* Inputs: what the registries may answer *)

TransportError == [kind |-> "transport_error"]
HttpError == [kind |-> "http_error"]
NotJson == [kind |-> "not_json"]
NoResponse == [kind |-> "no_request"]

Descs == <<[lang |-> "es", value |-> "desc-es"],
           [lang |-> "en", value |-> "desc-en"]>>

CveObject(refs) ==
    [id |-> "nvd-id", published |-> "2021-01-01", descriptions |-> Descs,
     vulnStatus |-> "Analyzed", references |-> refs]

NvdOk(cve) ==
    [kind |-> "ok",
     body |-> [vulnerabilities |-> <<[cve |-> cve]>>, resultsPerPage |-> 1]]

RefCommitPatch == [url |-> "commit", tags |-> <<"Patch">>]
RefAdvisory == [url |-> "advisory", tags |-> <<"Vendor Advisory">>]

NvdWithCommit == NvdOk(CveObject(<<RefAdvisory, RefCommitPatch>>))
NvdNoCommit == NvdOk(CveObject(<<RefAdvisory>>))
NvdNoEnglish ==
    NvdOk([id |-> "nvd-id2", published |-> "2022-02-02",
           descriptions |-> <<[lang |-> "es", value |-> "desc-es"]>>,
           vulnStatus |-> "Received"])

NvdEmpty ==
    [kind |-> "ok", body |-> [vulnerabilities |-> <<>>, resultsPerPage |-> 0]]

NvdFailures ==
    {TransportError, HttpError, NotJson, NvdEmpty,
     [kind |-> "ok", body |-> [resultsPerPage |-> 0]],
     [kind |-> "ok", body |-> [vulnerabilities |-> <<>>]],
     [kind |-> "ok",
      body |-> [vulnerabilities |-> <<[cve |-> CveObject(<<>>)]>>,
                resultsPerPage |-> 0]],
     [kind |-> "ok",
      body |-> [vulnerabilities |-> <<[cve |-> CveObject(<<>>)]>>]],
     [kind |-> "ok",
      body |-> [vulnerabilities |-> <<[other |-> 1]>>, resultsPerPage |-> 1]],
     NvdOk([id |-> "nvd-id", published |-> "2021-01-01",
            descriptions |-> Descs]),
     NvdOk(CveObject(<<[tags |-> <<"Patch">>]>>))}

\* the App specification's registry
NvdSmall == {TransportError, NvdEmpty, NvdWithCommit, NvdNoCommit,
             NvdOk(CveObject(<<[tags |-> <<"Patch">>]>>))}

\* the unit specification's registry
NvdAll == NvdFailures \cup {NvdWithCommit, NvdNoCommit, NvdNoEnglish}

\* reference payloads: entries with a url and an optional tag list
RefUrls == {"commit", "commit2", "advisory", "shortsha"}
TagLists == {<<>>, <<"Patch">>, <<"Patch", "Exploit">>, <<"GitHub">>}
RefEntries == [url : RefUrls, tags : TagLists] \cup [url : RefUrls]
RefPayloads == UNION {[1..n -> RefEntries] : n \in 0..MaxRefs}
NvdRefs == {NvdOk(CveObject(refs)) : refs \in RefPayloads}

HeaderValue(n) == [type |-> "str", text |-> n]   \* a header value is a str
NoHeaders == [h \in {} |-> HeaderValue(0)]
RateLimit(remaining, limit) ==
    [h \in RateHeaders |->
        CASE h = "X-RateLimit-Remaining" -> HeaderValue(remaining)
          [] h = "X-RateLimit-Limit" -> HeaderValue(limit)
          [] h = "Retry-After" -> HeaderValue(30)]
Without(headers, h) == [k \in DOMAIN headers \ {h} |-> headers[k]]

OcBodyA == [cve_id |-> "oc-id", vendors |-> <<"acme">>, title |-> "title-a",
            description |-> "oc-desc", weaknesses |-> <<"CWE-79">>]
OcBodyB == [cve_id |-> "oc-id", vendors |-> <<>>, title |-> "title-b",
            description |-> "oc-desc", weaknesses |-> <<"CWE-20", "CWE-89">>]
OcBodyNoTitle == [cve_id |-> "oc-id", vendors |-> <<"acme">>,
                  description |-> "oc-desc", weaknesses |-> <<"CWE-79">>]

OcOk(body, headers) == [kind |-> "ok", body |-> body, headers |-> headers]

HeaderSets ==
    {NoHeaders, RateLimit(5, 100), RateLimit(10, 100), RateLimit(50, 100),
     RateLimit(11, 109), Without(RateLimit(5, 100), "Retry-After"),
     Without(RateLimit(5, 100), "X-RateLimit-Limit"),
     Without(RateLimit(50, 100), "X-RateLimit-Remaining")}

OcSmall == {HttpError, OcOk(OcBodyA, NoHeaders), OcOk(OcBodyB, NoHeaders),
            OcOk(OcBodyA, RateLimit(50, 100))}

OcAll == {TransportError, HttpError, NotJson, OcOk(OcBodyNoTitle, NoHeaders)}
         \cup {OcOk(b, h) : b \in {OcBodyA, OcBodyB}, h \in HeaderSets}

\* the credential store
EnvNames == {"OPENCVE_USERNAME", "OPENCVE_PASSWORD"}
Registered == [n \in EnvNames |-> [type |-> "str", text |-> "secret"]]
Envs == {Registered,
         [Registered EXCEPT !["OPENCVE_PASSWORD"] = None],
         [n \in EnvNames |-> None]}

\* load_env_var
load_env_var(e, name) == e[name]

\* a document saved by an earlier run
OldDocument ==
    MergedRecord(NVDResult(NvdNoCommit), OpenCVEResult(OcOk(OcBodyB, NoHeaders)))

Stores == {[p \in {} |-> OldDocument], [p \in {Id2021} |-> OldDocument]}

-----------------------------------------------------------------------------
(* fetch_data_with_CVE_number, step by step *)

IsRecord(v) == v \notin {None, Unset, Raised}

\* the state of a call that has just been entered with argument r
Enter(r) ==
    /\ raw' = r
    /\ cve_number' = <<>>
    /\ nvd_data' = Unset
    /\ open_cve_data' = Unset
    /\ ret' = "pending"
    /\ requests' = <<>>
    /\ nvd_response' = NoResponse
    /\ oc_response' = NoResponse
    /\ log' = "none"
    /\ dirs0' = dirs
    /\ files0' = files

\* cve_number = cve_number.upper(); if not validate_cve(cve_number): return False
Validate ==
    /\ pc = "validate"
    /\ cve_number' = Upper(raw)
    /\ IF validate_cve(Upper(raw))
       THEN pc' = "nvd" /\ ret' = ret
       ELSE pc' = "returned" /\ ret' = "False"
    /\ UNCHANGED <<lines, idx, pbar, delays, handed, raw, nvd_data,
                   open_cve_data, requests, nvd_response, oc_response, log,
                   env, dirs, files, dirs0, files0>>

\* nvd_data = fetch_data_with_CVE_number_in_NVD(cve_number)
FetchNVD(Registry) ==
    /\ pc = "nvd"
    /\ \E response \in Registry :
          /\ nvd_response' = response
          /\ requests' = Append(requests, <<"NVD", cve_number>>)
          /\ IF NVDResult(response) = Raised
             THEN pc' = "returned" /\ ret' = "raised" /\ nvd_data' = nvd_data
             ELSE pc' = "opencve" /\ ret' = ret
                  /\ nvd_data' = NVDResult(response)
    /\ UNCHANGED <<lines, idx, pbar, delays, handed, raw, cve_number,
                   open_cve_data, oc_response, log, env, dirs, files, dirs0,
                   files0>>

\* open_cve_data = fetch_data_with_CVE_number_in_OpenCVE(cve_number)
FetchOpenCVE(Registry) ==
    /\ pc = "opencve"
    /\ LET username == load_env_var(env, "OPENCVE_USERNAME")
           password == load_env_var(env, "OPENCVE_PASSWORD")
           registered == username # None /\ password # None
       IN  \E response \in IF registered THEN Registry ELSE {NoResponse} :
              /\ oc_response' = response
              /\ requests' = IF registered
                             THEN Append(requests, <<"OpenCVE", cve_number>>)
                             ELSE requests
              /\ log' = IF registered THEN OpenCVELog(response) ELSE log
              /\ IF ~registered
                 THEN pc' = "merge" /\ ret' = ret /\ open_cve_data' = None
                 ELSE IF OpenCVEResult(response) = Raised
                 THEN pc' = "returned" /\ ret' = "raised"
                      /\ open_cve_data' = open_cve_data
                 ELSE pc' = "merge" /\ ret' = ret
                      /\ open_cve_data' = OpenCVEResult(response)
    /\ UNCHANGED <<lines, idx, pbar, delays, handed, raw, cve_number,
                   nvd_data, nvd_response, env, dirs, files, dirs0, files0>>

\* the rest of the body: the None check, the merge, the save, the commit
\* url loops and the return
MergeAndPersist ==
    /\ pc = "merge"
    /\ pc' = "returned"
    /\ IF nvd_data = None \/ open_cve_data = None
       THEN ret' = "False" /\ dirs' = dirs /\ files' = files
       ELSE LET result == MergedRecord(nvd_data, open_cve_data)
            IN  /\ dirs' = dirs \cup {cve_number}
                /\ files' = WriteFile(files, cve_number, result)
                /\ ret' = StoredStatus(GithubURLs(result))
    /\ UNCHANGED <<lines, idx, pbar, delays, handed, raw, cve_number,
                   nvd_data, open_cve_data, requests, nvd_response,
                   oc_response, log, env, dirs0, files0>>

-----------------------------------------------------------------------------
(* App.fetch *)

\* for cve in cve_numbers: fetch_data_with_CVE_number(cve.strip())
AppCall ==
    /\ pc = "loop"
    /\ idx <= Len(lines)
    /\ Enter(Strip(lines[idx]))
    /\ handed' = Append(handed, Strip(lines[idx]))
    /\ pc' = "validate"
    /\ UNCHANGED <<lines, idx, pbar, delays, env, dirs, files>>

\* an exception raised by the call leaves App.fetch: nothing catches it
AppPropagate ==
    /\ pc = "returned"
    /\ ret = "raised"
    /\ pc' = "crashed"
    /\ UNCHANGED <<lines, idx, pbar, delays, handed, raw, cve_number,
                   nvd_data, open_cve_data, ret, requests, nvd_response,
                   oc_response, log, env, dirs, files, dirs0, files0>>

\* pbar.update(1)
AppUpdate ==
    /\ pc = "returned"
    /\ ret # "raised"
    /\ pbar' = pbar + 1
    /\ pc' = "sleep"
    /\ UNCHANGED <<lines, idx, delays, handed, raw, cve_number, nvd_data,
                   open_cve_data, ret, requests, nvd_response, oc_response,
                   log, env, dirs, files, dirs0, files0>>

\* a loop that sleeps only after an identifier that was stored
AppSleep_OnlyAfterStored ==
    /\ pc = "sleep"
    /\ delays' = IF ret = "False" THEN delays ELSE delays + 1
    /\ idx' = idx + 1
    /\ pc' = "loop"
    /\ UNCHANGED <<lines, pbar, handed, raw, cve_number, nvd_data,
                   open_cve_data, ret, requests, nvd_response, oc_response,
                   log, env, dirs, files, dirs0, files0>>

\* sleep(3), and on to the next line
AppSleep ==
    /\ pc = "sleep"
    /\ delays' = delays + 1
    /\ idx' = idx + 1
    /\ pc' = "loop"
    /\ UNCHANGED <<lines, pbar, handed, raw, cve_number, nvd_data,
                   open_cve_data, ret, requests, nvd_response, oc_response,
                   log, env, dirs, files, dirs0, files0>>

\* the loop is over: "Successfully fetched all data"
AppFinish ==
    /\ pc = "loop"
    /\ idx > Len(lines)
    /\ pc' = "done"
    /\ UNCHANGED <<lines, idx, pbar, delays, handed, raw, cve_number,
                   nvd_data, open_cve_data, ret, requests, nvd_response,
                   oc_response, log, env, dirs, files, dirs0, files0>>

-----------------------------------------------------------------------------
(* Specifications *)

NoCall ==
    /\ cve_number = <<>>
    /\ nvd_data = Unset
    /\ open_cve_data = Unset
    /\ ret = "pending"
    /\ requests = <<>>
    /\ nvd_response = NoResponse
    /\ oc_response = NoResponse
    /\ log = "none"
    /\ dirs0 = dirs
    /\ files0 = files

\* App.fetch over a batch file
Init ==
    /\ lines \in Batches
    /\ idx = 1
    /\ pbar = 0
    /\ delays = 0
    /\ handed = <<>>
    /\ pc = "loop"
    /\ raw = <<>>
    /\ env \in {Registered, [n \in EnvNames |-> None]}
    /\ files = [p \in {} |-> OldDocument]
    /\ dirs = {}
    /\ NoCall

Next ==
    \/ AppCall
    \/ Validate
    \/ FetchNVD(NvdSmall)
    \/ FetchOpenCVE(OcSmall)
    \/ MergeAndPersist
    \/ AppPropagate
    \/ AppUpdate
    \/ AppSleep
    \/ AppFinish

Spec == Init /\ [][Next]_vars

\* one call of fetch_data_with_CVE_number, with any string
InitCall ==
    /\ lines = <<>>
    /\ idx = 1
    /\ pbar = 0
    /\ delays = 0
    /\ pc = "validate"
    /\ env \in Envs
    /\ files \in Stores
    /\ dirs = DOMAIN files
    /\ NoCall
    /\ \E r \in RawIds : raw = r /\ handed = <<r>>

NextCall ==
    \/ Validate
    \/ FetchNVD(NvdAll)
    \/ FetchOpenCVE(OcAll)
    \/ MergeAndPersist

SpecCall == InitCall /\ [][NextCall]_vars

\* one call with a valid identifier, over the reference payloads
InitRefs ==
    /\ lines = <<>>
    /\ idx = 1
    /\ pbar = 0
    /\ delays = 0
    /\ pc = "validate"
    /\ env = Registered
    /\ files = [p \in {} |-> OldDocument]
    /\ dirs = {}
    /\ NoCall
    /\ \E r \in {Id2021, IdLower, IdShort} : raw = r /\ handed = <<r>>

NextRefs ==
    \/ Validate
    \/ FetchNVD(NvdRefs)
    \/ FetchOpenCVE(OcSmall)
    \/ MergeAndPersist

SpecRefs == InitRefs /\ [][NextRefs]_vars

-----------------------------------------------------------------------------
(* Vocabulary of the properties *)

\* 'CVE-', exactly four digits, '-', four or more digits, and nothing else
IsCanonical(s) ==
    /\ Len(s) >= Len(LitCVE) + YearDigits + 1 + MinSeqDigits
    /\ SubSeq(s, 1, Len(LitCVE)) = LitCVE
    /\ \A i \in (Len(LitCVE) + 1)..(Len(LitCVE) + YearDigits) : IsDigit(s[i])
    /\ s[Len(LitCVE) + YearDigits + 1] = "-"
    /\ \A i \in (Len(LitCVE) + YearDigits + 2)..Len(s) : IsDigit(s[i])

Stored == pc = "returned" /\ IsRecord(nvd_data) /\ IsRecord(open_cve_data)

PrimaryFields ==
    {"cve_number", "publish_date", "description", "status", "references"}

\* the urls, in payload order, of the entries at the positions in keep
UrlsOf(payload, keep) ==
    LET upto[k \in 0..Len(payload)] ==
            IF k = 0 THEN <<>>
            ELSE IF k \in keep THEN Append(upto[k - 1], payload[k].url)
            ELSE upto[k - 1]
    IN  upto[Len(payload)]

Carries(entry, tag) ==
    Has(entry, "tags") /\ \E i \in 1..Len(entry.tags) : entry.tags[i] = tag

TagsOf(payload) ==
    UNION {IF Has(payload[i], "tags")
           THEN {payload[i].tags[j] : j \in 1..Len(payload[i].tags)}
           ELSE {} : i \in 1..Len(payload)}

ListUnder(refs, tag) == IF Has(refs, tag) THEN refs[tag] ELSE <<>>

-----------------------------------------------------------------------------
(* Properties *)

\* C1: the record file is written only if both fetches returned a record;
\* if either fetch returned None, the call returns False and the store
\* (directories and files) is as it was when the call started.
C1_NoPartialWrite ==
    /\ (files # files0 \/ dirs # dirs0)
           => IsRecord(nvd_data) /\ IsRecord(open_cve_data)
    /\ (pc = "returned" /\ (nvd_data = None \/ open_cve_data = None))
           => ret = "False" /\ files = files0 /\ dirs = dirs0

\* C2: whatever the outcome of each identifier was, a run of App.fetch that
\* has stopped has handed every line of the batch to
\* fetch_data_with_CVE_number, once each and in input order.
C2_EveryLineProcessed ==
    /\ Len(handed) <= Len(lines)
    /\ \A i \in 1..Len(handed) : handed[i] = Strip(lines[i])
    /\ pc \in {"done", "crashed"} => Len(handed) = Len(lines)

\* C3: whatever the registries answer (a transport error, an error status,
\* or a success whose JSON body or headers are of any shape), each source
\* client returns a record or None: no exception reaches
\* fetch_data_with_CVE_number.
C3_NoExceptionEscapes ==
    (nvd_response.kind # "not_json" /\ oc_response.kind # "not_json")
        => ret # "raised"

\* C4: an argument whose uppercased form is not canonical is skipped with
\* False, no request and no write; one whose uppercased form is canonical
\* reaches the fetch step.
C4_ValidationGate ==
    pc # "validate" =>
        IF IsCanonical(Upper(raw))
        THEN pc = "nvd" \/ requests # <<>>
        ELSE /\ pc = "returned" /\ ret = "False"
             /\ requests = <<>> /\ files = files0 /\ dirs = dirs0

\* C5: when both fetches returned a record, the saved document holds every
\* field of the primary record with the primary's value, and its vendor,
\* title and weaknesses are the ones the secondary registry sent.
C5_SecondaryWins ==
    Stored =>
        /\ cve_number \in DOMAIN files
        /\ LET doc == files[cve_number]
           IN  /\ DOMAIN doc = PrimaryFields \cup {"vendor", "title", "weaknesses"}
               /\ \A k \in PrimaryFields : doc[k] = nvd_data[k]
               /\ doc.vendor = open_cve_data.vendor
               /\ doc.title = open_cve_data.title
               /\ doc.weaknesses = open_cve_data.cwe
               /\ doc.vendor = oc_response.body.vendors
               /\ doc.title = oc_response.body.title
               /\ doc.weaknesses = oc_response.body.weaknesses

C5_Witness ==
    /\ Stored
    /\ cve_number \in DOMAIN files0
    /\ files[cve_number].vendor # files[cve_number].weaknesses
    /\ files[cve_number].title = "title-a"
    /\ Has(files[cve_number].references, "GitHub")

\* C6: a successful call replaces the document of its uppercased identifier
\* by the record it merged and leaves every other document alone; the store
\* holds documents only for uppercased identifiers that were processed, and
\* saving the document that is already there changes nothing.
C6_OverwriteByIdentifier ==
    /\ DOMAIN files \subseteq {Upper(handed[i]) : i \in 1..Len(handed)}
    /\ dirs = DOMAIN files
    /\ Stored =>
          /\ cve_number = Upper(raw)
          /\ DOMAIN files = DOMAIN files0 \cup {cve_number}
          /\ files[cve_number] = MergedRecord(nvd_data, open_cve_data)
          /\ \A p \in DOMAIN files0 \ {cve_number} : files[p] = files0[p]
          /\ (cve_number \in DOMAIN files0
              /\ files0[cve_number] = MergedRecord(nvd_data, open_cve_data))
                 => files = files0
    /\ (pc = "returned" /\ ~Stored) => files = files0

C6_Witness ==
    /\ Stored
    /\ raw # cve_number
    /\ cve_number \in DOMAIN files0
    /\ files0[cve_number] # files[cve_number]

\* C7: the call returns True exactly when the merged record was written,
\* with or without commit urls, and False exactly when the identifier was
\* invalid or a fetch returned None.
C7_StatusIsBoolean ==
    (pc = "returned" /\ ret # "raised") =>
        /\ ret = "True" <=> (IsRecord(nvd_data) /\ IsRecord(open_cve_data))
        /\ ret = "False" <=> \/ ~validate_cve(cve_number)
                             \/ nvd_data = None
                             \/ open_cve_data = None

\* C8: for a reference payload, the list under every ordinary tag is the
\* payload-order sequence of the urls of the entries carrying the tag, and
\* the list under "GitHub" is the payload-order sequence of the urls the
\* url classifier accepts.
C8_ReferencesByTag ==
    (IsRecord(nvd_data) /\ Has(nvd_response.body.vulnerabilities[1].cve,
                               "references")) =>
        LET payload == nvd_response.body.vulnerabilities[1].cve.references
            refs == nvd_data.references
            accepted == {i \in 1..Len(payload) :
                            validate_a_url_belongs_to_github(payload[i].url)}
        IN  /\ \A t \in (TagsOf(payload) \cup DOMAIN refs) \ {"GitHub"} :
                  ListUnder(refs, t)
                      = UrlsOf(payload, {i \in 1..Len(payload) :
                                            Carries(payload[i], t)})
            /\ ListUnder(refs, "GitHub") = UrlsOf(payload, accepted)

\* C9: for a successful OpenCVE response, the client returns the secondary
\* record; with all three rate-limit headers it logs the warning exactly
\* when remaining <= 10% of limit and the informational line otherwise,
\* and with a header absent it logs neither.
C9_RateLimitReport ==
    (oc_response.kind = "ok" /\ OpenCVEFields \subseteq DOMAIN oc_response.body)
    =>  /\ IsRecord(open_cve_data)
        /\ ret # "raised"
        /\ LET h == oc_response.headers
           IN  log = IF RateHeaders \subseteq DOMAIN h
                     THEN IF h["X-RateLimit-Remaining"].text * RateDivisor
                                <= h["X-RateLimit-Limit"].text
                          THEN "warning" ELSE "info"
                     ELSE "none"

\* C10: one sleep follows each call that returned, whatever it returned:
\* when the n-th call starts n-1 sleeps have been performed, and a run that
\* reaches its end has slept once per line.
C10_DelayAfterEach ==
    /\ pc \in {"validate", "nvd", "opencve", "merge", "returned", "crashed",
               "sleep"}
           => delays = Len(handed) - 1 /\ idx = Len(handed)
    /\ pc = "loop" => delays = Len(handed) /\ idx = Len(handed) + 1
    /\ pc = "done" => delays = Len(lines) /\ Len(handed) = Len(lines)

C10_Witness ==
    /\ pc = "done"
    /\ Len(lines) >= 2
    /\ delays = Len(lines)
    /\ ret = "False"
    /\ files # files0 \/ DOMAIN files # {}

====
